---- MODULE Spec2Model ----
(***************************************************************************)
(* Model of the synchronisation engine of family-finance-hub:              *)
(* EnhancedSyncManager (src/js/sync-manager.js) together with the parts of *)
(* IndexedDBManager and SecurityManager (src/js/security-manager.js) that  *)
(* it calls.                                                               *)
(*                                                                         *)
(* JavaScript runs one handler at a time; a handler gives up control only  *)
(* at an await on an IndexedDB request or on fetch.  Each action below is  *)
(* one such run-to-suspension piece.  An await on an already settled       *)
(* promise (processSyncQueue returning early, syncOperation, the merge     *)
(* functions) is a microtask and is folded into the piece around it.       *)
(*                                                                         *)
(* Timestamps: the source stores ISO-8601 strings produced by              *)
(* toISOString() and compares new Date(s).getTime(); the model stores the  *)
(* millisecond value, 0 standing for an absent (falsy) field.              *)
(*                                                                         *)
(* Spec: IndexedDB requests succeed; the fetch of the remote document and  *)
(* the upload may fail.  SpecStore adds failing store calls, SpecRestart   *)
(* the end of the process and a new init, SpecWrite the host's             *)
(* addTransaction, SpecOnline the fairness of a device that stays online,  *)
(* SpecShared a document that holds a record of member B, SpecPair the     *)
(* device of member B running its own cycles, and SpecMerge applies the    *)
(* merge functions to drawn inputs.                                        *)
(***************************************************************************)
EXTENDS Integers, Sequences, FiniteSets, TLC

\* ------------------------------------------------------------------ bounds
\* Largest value of the wall clock (Date.now / new Date()).
MaxTime == 2
\* Number of distinct record ids in the pure-function checks.
NumIds == 3
\* Largest counter of a vector clock drawn as an input.
MaxClock == 2

\* ------------------------------------------------------------------ data
Actors == {"A", "B"}
\* memberCode of the device under study (init's second argument).
memberCode == "A"

Strategies == {"last-write-wins", "remote-wins", "local-wins", "manual", "other"}

Null == "null"

\* familyCode, the shared secret given to init.
familyCode == "family"

\* if (op.retryCount > 3) in processSyncQueue.
RetryLimit == 3

\* Calls of queueOperation in one run.
MaxOps == 2

\* Bound: process restarts in one run.
MaxRestarts == 1

\* Bound: the longest collection handed to mergeCollection in the checks of it.
MaxLen == 2

\* Bound: addTransaction calls in one run.
MaxAdds == 1

Rec(i, u, c, a) == [id |-> i, updatedAt |-> u, createdAt |-> c, amount |-> a]

VARIABLES
    online,                     \* navigator.onLine
    gistId,                     \* this.gistId, "none" for null
    syncInProgress,             \* this.syncInProgress
    conflictResolutionStrategy, \* this.conflictResolutionStrategy
    vectorClock,                \* this.vectorClock : actor -> counter (partial)
    syncQueue,                  \* this.syncQueue
    lastSyncTime,               \* this.lastSyncTime, 0 for null
    syncStatus,                 \* last value given to appContext.setSyncStatus
    dbSyncQueue,                \* object store 'syncQueue' of IndexedDB
    dbTransactions,             \* object store 'transactions' of IndexedDB
    gist,                       \* content of family-finance-data.json in the gist
    now,                        \* wall clock read by new Date() / Date.now()
    nextOpId,                   \* number of ids handed out by generateUUID
    enqueues,                   \* queueOperation calls suspended in dbManager.save
    drains,                     \* processSyncQueue calls suspended in dbManager.delete
    cycles,                     \* syncNow calls suspended in a store or fetch call
    attempts,                   \* history: syncOperation calls per operation id
    quiet,                      \* history: nothing but the cycle ran since it began
    history,                    \* history: results of the last successful cycles
    io,                         \* history: transport or store outcome of the last step
    rejected,                   \* history: calls whose promise was rejected
    enqOrder,                   \* history: operation ids in the order of their enqueue
    loads,                      \* loadSyncQueue calls suspended in dbManager.getAll
    restarts,                   \* number of process restarts so far
    adds,                       \* addTransaction calls, suspended in dbManager.save or done
    peer,                       \* the device of member B: its store, clock and cycle
    pIn,                        \* inputs of a pure-function check
    pOut,                       \* its outputs
    pDone                       \* whether the function under check was applied

devVars == <<online, gistId, syncInProgress, syncQueue, lastSyncTime, syncStatus,
             dbSyncQueue, dbTransactions, gist, now, nextOpId, enqueues, drains,
             cycles, attempts, quiet, history, io, rejected, enqOrder, loads,
             restarts, adds>>

vars == <<devVars, conflictResolutionStrategy, vectorClock, pIn, pOut, pDone, peer>>

\* ------------------------------------------------------------------ resolveConflict
\* new Date(item.updatedAt || item.createdAt || 0).getTime()
RecordTime(item) ==
    IF item.updatedAt # 0 THEN item.updatedAt
    ELSE IF item.createdAt # 0 THEN item.createdAt
    ELSE 0

ResolveConflict_Earlier(local, remote, strategy) ==
    CASE strategy = "last-write-wins" ->
            [threw |-> FALSE,
             item |-> IF RecordTime(local) < RecordTime(remote) THEN local ELSE remote]
      [] strategy = "remote-wins" -> [threw |-> FALSE, item |-> remote]
      [] strategy = "manual" -> [threw |-> TRUE, item |-> local]
      [] OTHER -> [threw |-> FALSE, item |-> local]

\* resolveConflict(local, remote, type): the winner, or threw = TRUE.  The
\* 'manual' branch calls this.queueConflict, which no file of the repository
\* defines: the call throws a TypeError before local is returned.
ResolveConflict(local, remote, strategy) ==
    CASE strategy = "last-write-wins" ->
            [threw |-> FALSE,
             item |-> IF RecordTime(local) > RecordTime(remote) THEN local ELSE remote]
      [] strategy = "remote-wins" -> [threw |-> FALSE, item |-> remote]
      [] strategy = "local-wins" -> [threw |-> FALSE, item |-> local]
      [] strategy = "manual" -> [threw |-> TRUE, item |-> local]
      [] OTHER -> [threw |-> FALSE, item |-> local]

\* ------------------------------------------------------------------ mergeCollection
\* A JavaScript Map keyed by id, kept as the sequence of its values in
\* insertion order: set() on a present key replaces the value in place.
MapHas(m, id) == \E i \in 1..Len(m) : m[i].id = id

MapGet(m, id) == m[CHOOSE i \in 1..Len(m) : m[i].id = id]

MapSet(m, item) ==
    IF MapHas(m, item.id)
    THEN [i \in 1..Len(m) |-> IF m[i].id = item.id THEN item ELSE m[i]]
    ELSE Append(m, item)

\* local.forEach(item => merged.set(item.id, item))
RECURSIVE AddLocalItems(_, _)
AddLocalItems(m, local) ==
    IF local = <<>> THEN m
    ELSE AddLocalItems(MapSet(m, Head(local)), Tail(local))

RECURSIVE MergeRemoteItems_DropNew(_, _, _)
MergeRemoteItems_DropNew(m, remote, strategy) ==
    IF remote = <<>> THEN [threw |-> FALSE, items |-> m]
    ELSE IF ~MapHas(m, Head(remote).id)
         THEN MergeRemoteItems_DropNew(m, Tail(remote), strategy)
         ELSE LET r == ResolveConflict(MapGet(m, Head(remote).id), Head(remote), strategy)
              IN  IF r.threw THEN [threw |-> TRUE, items |-> <<>>]
                  ELSE MergeRemoteItems_DropNew(MapSet(m, r.item), Tail(remote), strategy)

RECURSIVE MergeRemoteItems_Prepend(_, _, _)
MergeRemoteItems_Prepend(m, remote, strategy) ==
    IF remote = <<>> THEN [threw |-> FALSE, items |-> m]
    ELSE IF ~MapHas(m, Head(remote).id)
         THEN MergeRemoteItems_Prepend(<<Head(remote)>> \o m, Tail(remote), strategy)
         ELSE LET r == ResolveConflict(MapGet(m, Head(remote).id), Head(remote), strategy)
              IN  IF r.threw THEN [threw |-> TRUE, items |-> <<>>]
                  ELSE MergeRemoteItems_Prepend(MapSet(m, r.item), Tail(remote), strategy)

\* remote.forEach(remoteItem => ...): insert a remote-only item, resolve a
\* conflict; an exception thrown by the resolver leaves forEach.
RECURSIVE MergeRemoteItems(_, _, _)
MergeRemoteItems(m, remote, strategy) ==
    IF remote = <<>> THEN [threw |-> FALSE, items |-> m]
    ELSE IF ~MapHas(m, Head(remote).id)
         THEN MergeRemoteItems(MapSet(m, Head(remote)), Tail(remote), strategy)
         ELSE LET r == ResolveConflict(MapGet(m, Head(remote).id), Head(remote), strategy)
              IN  IF r.threw THEN [threw |-> TRUE, items |-> <<>>]
                  ELSE MergeRemoteItems(MapSet(m, r.item), Tail(remote), strategy)

\* mergeCollection(local, remote, type): Array.from(merged.values()), or threw.
MergeCollection(local, remote, strategy) ==
    MergeRemoteItems(AddLocalItems(<<>>, local), remote, strategy)

\* ------------------------------------------------------------------ vector clock
MergeClocks_Overwrite(vc, remoteVc) ==
    [k \in (DOMAIN vc) \cup (DOMAIN remoteVc) |->
        IF k \in DOMAIN remoteVc THEN remoteVc[k] ELSE vc[k]]

MergeClocks_Smaller(vc, remoteVc) ==
    [k \in (DOMAIN vc) \cup (DOMAIN remoteVc) |->
        IF k \in DOMAIN remoteVc
           /\ (k \notin DOMAIN vc \/ vc[k] = 0 \/ remoteVc[k] < vc[k])
        THEN remoteVc[k]
        ELSE vc[k]]

\* mergeData's clock loop: for every [member, clock] of the remote clock,
\* if (!vectorClock[member] || clock > vectorClock[member]) adopt clock.
MergeClocks(vc, remoteVc) ==
    [k \in (DOMAIN vc) \cup (DOMAIN remoteVc) |->
        IF k \in DOMAIN remoteVc
           /\ (k \notin DOMAIN vc \/ vc[k] = 0 \/ remoteVc[k] > vc[k])
        THEN remoteVc[k]
        ELSE vc[k]]

\* ------------------------------------------------------------------ collaborators
\* SecurityManager.encrypt(data, key): AES of JSON.stringify(data).
Encrypt(data, key) == [key |-> key, plaintext |-> data]

\* SecurityManager.decrypt(blob, key): parse failure under a wrong key gives null.
Decrypt(blob, key) ==
    IF blob.key = key THEN [ok |-> TRUE, value |-> blob.plaintext]
    ELSE [ok |-> FALSE, value |-> <<>>]

EmptyClock == [a \in {} |-> 0]

Snapshot(transactions, clock) == [transactions |-> transactions, vectorClock |-> clock]

\* IndexedDB getAll: the records of a store in ascending key (id) order.
RECURSIVE GetAll(_)
GetAll(store) ==
    IF store = {} THEN <<>>
    ELSE LET first == CHOOSE r \in store : \A o \in store : r.id <= o.id
         IN  <<first>> \o GetAll(store \ {first})

\* ------------------------------------------------------------------ processSyncQueue
\* The fields of the manager and of the queue store that syncNow and
\* processSyncQueue read and write, passed from call to call.
Cur ==
    [syncInProgress |-> syncInProgress, syncQueue |-> syncQueue,
     vectorClock |-> vectorClock, syncStatus |-> syncStatus,
     dbSyncQueue |-> dbSyncQueue, drains |-> drains, cycles |-> cycles,
     attempts |-> attempts]

QueueWithout(q, id) == SelectSeq(q, LAMBDA item : item.id # id)

\* Assignments to the operation object with this id, seen through the queue.
QueueAssign(q, id, status, retryCount) ==
    [i \in 1..Len(q) |->
        IF q[i].id = id
        THEN [q[i] EXCEPT !.status = status, !.retryCount = retryCount]
        ELSE q[i]]

\* The for loop of processSyncQueue from one operation on, up to the await of
\* dbManager.delete or to the finally block.  syncOperation bumps the own
\* counter, stamps the operation and throws on console.log when the queued
\* item carries no operation (operation.operation.type of undefined).
RECURSIVE RunDrain(_, _)
RunDrain(s, pendingOps) ==
    IF pendingOps = <<>>
    THEN [s EXCEPT !.syncInProgress = FALSE]
    ELSE LET op == Head(pendingOps)
             clock == [s.vectorClock EXCEPT ![memberCode] = @ + 1]
             tried == [s EXCEPT !.vectorClock = clock,
                                !.attempts = [@ EXCEPT ![op.id] = @ + 1]]
         IN  IF op.operation = "undefined"
             THEN LET failed == QueueAssign(s.syncQueue, op.id, "failed",
                                            op.retryCount + 1)
                  IN  RunDrain([tried EXCEPT !.syncQueue =
                                   IF op.retryCount + 1 > RetryLimit
                                   THEN QueueWithout(failed, op.id)
                                   ELSE failed],
                               Tail(pendingOps))
             ELSE [tried EXCEPT
                     !.syncQueue = QueueWithout(s.syncQueue, op.id),
                     !.dbSyncQueue = {o \in s.dbSyncQueue : o.id # op.id},
                     !.drains = Append(s.drains,
                                       [op |-> op.id, pendingOps |-> Tail(pendingOps)])]

ProcessSyncQueueGuard_NoFlag(q, inProgress) == Len(q) # 0

\* if (this.syncQueue.length === 0 || this.syncInProgress) return;
ProcessSyncQueueGuard(q, inProgress) == ~(Len(q) = 0 \/ inProgress)

\* pendingOps, the operations the for loop of a drain goes through, in order.
PendingOps(q) == SelectSeq(q, LAMBDA op : op.status = "pending")

\* processSyncQueue() up to its first suspension.
ProcessSyncQueue(s) ==
    IF ~ProcessSyncQueueGuard(s.syncQueue, s.syncInProgress) THEN s
    ELSE RunDrain([s EXCEPT !.syncInProgress = TRUE], PendingOps(s.syncQueue))

\* ------------------------------------------------------------------ syncNow
PendingIds(q) == {q[i].id : i \in {j \in 1..Len(q) : q[j].status = "pending"}}

NoBody == [encrypted |-> FALSE, data |-> Encrypt(Snapshot(<<>>, EmptyClock), Null),
           plain |-> Snapshot(<<>>, EmptyClock)]

SyncNowGuard_NoFlag(inProgress, onLine) == onLine

SyncNowGuard_NoOnline(inProgress, onLine) == ~inProgress

\* if (this.syncInProgress || !navigator.onLine) return;
SyncNowGuard(inProgress, onLine) == ~(inProgress \/ ~onLine)

\* syncNow() up to its first suspension: the guard, the flag, the 'syncing'
\* status, the call of processSyncQueue and the first getAll of getLocalData.
SyncNow(s, onLine) ==
    IF ~SyncNowGuard(s.syncInProgress, onLine) THEN s
    ELSE LET begun == ProcessSyncQueue([s EXCEPT !.syncInProgress = TRUE,
                                                 !.syncStatus = "syncing"])
         IN  [begun EXCEPT !.cycles =
                 Append(@, [pc |-> "getLocal",
                            localData |-> GetAll(dbTransactions),
                            remotePresent |-> FALSE,
                            mergedData |-> <<>>,
                            body |-> NoBody,
                            pendingAtStart |-> PendingIds(s.syncQueue)])]

\* getRemoteData(): null on a failed fetch, on a failed decryption.
GetRemoteData(doc, fetchOk) ==
    IF ~fetchOk THEN [present |-> FALSE, data |-> Snapshot(<<>>, EmptyClock)]
    ELSE IF doc.encrypted
         THEN LET d == Decrypt(doc.data, familyCode)
              IN  IF d.ok THEN [present |-> TRUE, data |-> d.value]
                  ELSE [present |-> FALSE, data |-> Snapshot(<<>>, EmptyClock)]
         ELSE [present |-> TRUE, data |-> doc.plain]

\* mergeData(localData, remoteData): the merged collection and this.vectorClock
\* after the clock loop; threw when mergeCollection throws.
MergeData(localData, remote, clock, strategy) ==
    IF ~remote.present
    THEN [threw |-> FALSE, items |-> localData, vectorClock |-> clock]
    ELSE LET m == MergeCollection(localData, remote.data.transactions, strategy)
         IN  [threw |-> m.threw, items |-> m.items,
              vectorClock |-> MergeClocks(clock, remote.data.vectorClock)]

\* saveBatch's loop over the items: createdAt when falsy, updatedAt always.
StampItems(items, t) ==
    [i \in 1..Len(items) |->
        [items[i] EXCEPT !.createdAt = IF @ = 0 THEN t ELSE @, !.updatedAt = t]]

\* store.put of every item: a row with the key of an item is replaced, the
\* other rows stay.
PutAll(store, items) ==
    {r \in store : \A k \in 1..Len(items) : items[k].id # r.id}
        \cup {items[k] : k \in 1..Len(items)}

\* uploadData's document: the snapshot spread at the top level, the encrypted
\* flag and the encrypted snapshot.
UploadBody(items, clock) ==
    [encrypted |-> TRUE, data |-> Encrypt(Snapshot(items, clock), familyCode),
     plain |-> Snapshot(items, clock)]

\* A reading of the wall clock: the last reading or later.
Readings == {t \in {now, now + 1} : t <= MaxTime}

\* ------------------------------------------------------------------ initial state
\* The file createGist writes: { created, familyCode }, no collection, no clock.
CreatedGist == [encrypted |-> FALSE, data |-> Encrypt(Snapshot(<<>>, EmptyClock), Null),
                plain |-> Snapshot(<<>>, EmptyClock)]

\* A snapshot uploaded earlier by member B: its copy of record 1.
GistOfB(u) == UploadBody(<<Rec(1, u, 1, 20)>>, [a \in {"B"} |-> 1])

\* A document this family's code does not decrypt.
GistOfStranger == [encrypted |-> TRUE, data |-> Encrypt(Snapshot(<<>>, EmptyClock), "stranger"),
                   plain |-> Snapshot(<<>>, EmptyClock)]

\* The manager after the constructor and init(familyCode, memberCode, gistId),
\* with the stores of the device and the gist as earlier sessions left them,
\* at wall-clock time t.
InitManagerAt(t) ==
    /\ online = TRUE
    /\ syncInProgress = FALSE
    /\ syncQueue = <<>>
    /\ lastSyncTime = 0
    /\ syncStatus = "idle"
    /\ dbSyncQueue = {}
    /\ now = t
    /\ nextOpId = 0
    /\ enqueues = {}
    /\ drains = <<>>
    /\ cycles = <<>>
    /\ attempts = [i \in 1..MaxOps |-> 0]
    /\ quiet = FALSE
    /\ history = <<>>
    /\ io = "none"
    /\ rejected = {}
    /\ enqOrder = <<>>
    /\ loads = <<>>
    /\ restarts = 0
    /\ adds = {}

InitManager == InitManagerAt(1)

\* No other device takes part.
NoPeer ==
    [store |-> {}, vectorClock |-> [a \in {"B"} |-> 0], pc |-> "off",
     localData |-> <<>>, mergedData |-> <<>>, body |-> NoBody]

Init ==
    /\ InitManager
    /\ conflictResolutionStrategy = "last-write-wins"
    /\ vectorClock = [a \in {memberCode} |-> 0]
    /\ dbTransactions = {Rec(1, 1, 1, 10)}
    /\ \/ gistId = "none" /\ gist = CreatedGist
       \/ gistId = "gist" /\ gist \in {GistOfB(2), GistOfStranger}
    /\ pIn = [mode |-> "none"]
    /\ pOut = <<>>
    /\ pDone = FALSE
    /\ peer = NoPeer

\* ------------------------------------------------------------------ actions
\* What no step of this device touches: the inputs and outputs of the
\* pure-function checks and the device of member B.
pVars == <<pIn, pOut, pDone, peer>>

\* What a step that neither enqueues nor restarts leaves alone.
bootVars == <<rejected, enqOrder, loads, restarts, adds>>

Assign(r) ==
    /\ syncInProgress' = r.syncInProgress
    /\ syncQueue' = r.syncQueue
    /\ vectorClock' = r.vectorClock
    /\ syncStatus' = r.syncStatus
    /\ dbSyncQueue' = r.dbSyncQueue
    /\ drains' = r.drains
    /\ cycles' = r.cycles
    /\ attempts' = r.attempts

\* History of a step outside the cycle: a transmission attempt or a local
\* mutation ends the run of undisturbed cycles; a cycle that begins opens one.
Track(r, mutation) ==
    LET disturbed == mutation \/ r.attempts # attempts
    IN  /\ quiet' = IF disturbed THEN FALSE
                    ELSE IF Len(r.cycles) > Len(cycles) THEN TRUE ELSE quiet
        /\ history' = IF disturbed THEN <<>> ELSE history

\* setInterval callback of startPeriodicSync.
PeriodicSync ==
    /\ LET r == IF online /\ ~syncInProgress THEN SyncNow(Cur, online) ELSE Cur
       IN  Assign(r) /\ Track(r, FALSE)
    /\ io' = "none"
    /\ UNCHANGED <<online, gistId, lastSyncTime, dbTransactions, gist, now, nextOpId,
                   enqueues, conflictResolutionStrategy, pVars, bootVars>>

\* visibilitychange listener of init.
VisibilityChange ==
    /\ LET r == IF online THEN SyncNow(Cur, online) ELSE Cur
       IN  Assign(r) /\ Track(r, FALSE)
    /\ io' = "none"
    /\ UNCHANGED <<online, gistId, lastSyncTime, dbTransactions, gist, now, nextOpId,
                   enqueues, conflictResolutionStrategy, pVars, bootVars>>

\* syncNow() called by the host (the sync button, the initial setTimeout).
ManualSync ==
    /\ LET r == SyncNow(Cur, online)
       IN  Assign(r) /\ Track(r, FALSE)
    /\ io' = "none"
    /\ UNCHANGED <<online, gistId, lastSyncTime, dbTransactions, gist, now, nextOpId,
                   enqueues, conflictResolutionStrategy, pVars, bootVars>>

\* 'online' event: handleOnline calls processSyncQueue, then syncNow.
HandleOnline ==
    /\ ~online
    /\ online' = TRUE
    /\ LET r == SyncNow(ProcessSyncQueue(Cur), TRUE)
       IN  Assign(r) /\ Track(r, FALSE)
    /\ io' = "none"
    /\ UNCHANGED <<gistId, lastSyncTime, dbTransactions, gist, now, nextOpId,
                   enqueues, conflictResolutionStrategy, pVars, bootVars>>

\* 'offline' event: handleOffline only notifies.
HandleOffline ==
    /\ online
    /\ online' = FALSE
    /\ UNCHANGED <<gistId, syncInProgress, syncQueue, lastSyncTime, syncStatus,
                   dbSyncQueue, dbTransactions, gist, now, nextOpId, enqueues, drains,
                   cycles, attempts, quiet, history, conflictResolutionStrategy,
                   vectorClock, pVars, bootVars>>
    /\ io' = "none"

\* The ids generateUUID has handed out.
UsedIds == {enqOrder[k] : k \in 1..Len(enqOrder)}

\* queueOperation(operation) up to the await of dbManager.save: the item gets
\* the id generateUUID returns, is pushed, and its put request is placed.
Enqueue(operation, id) ==
    /\ nextOpId < MaxOps
    /\ id \notin UsedIds
    /\ nextOpId' = nextOpId + 1
    /\ enqOrder' = Append(enqOrder, id)
    /\ LET item == [id |-> id, status |-> "pending", retryCount |-> 0,
                    operation |-> operation]
       IN  /\ syncQueue' = Append(syncQueue, item)
           /\ dbSyncQueue' = dbSyncQueue \cup {item}
    /\ enqueues' = enqueues \cup {id}
    /\ quiet' = FALSE
    /\ history' = <<>>
    /\ io' = "none"
    /\ UNCHANGED <<online, gistId, syncInProgress, lastSyncTime, syncStatus,
                   dbTransactions, gist, now, drains, cycles, attempts,
                   conflictResolutionStrategy, vectorClock, pVars, rejected, loads,
                   restarts>>

\* queueOperation called by the host, with an operation or with none.  The
\* ids are random; without a restart nothing reads the store in key order and
\* the ids may be taken to come out ascending.
QueueOperation ==
    /\ \E operation \in {"CREATE", "undefined"} : Enqueue(operation, nextOpId + 1)
    /\ UNCHANGED adds

\* queueOperation after the await of dbManager.save.
QueueOperationSaved ==
    \E id \in enqueues :
        /\ enqueues' = enqueues \ {id}
        /\ LET r == IF online /\ ~syncInProgress THEN ProcessSyncQueue(Cur) ELSE Cur
           IN  Assign(r) /\ Track(r, FALSE)
        /\ io' = "none"
        /\ UNCHANGED <<online, gistId, lastSyncTime, dbTransactions, gist, now, nextOpId,
                       conflictResolutionStrategy, pVars, bootVars>>

RemoveAt(seq, i) == [j \in 1..(Len(seq) - 1) |-> IF j < i THEN seq[j] ELSE seq[j + 1]]

\* processSyncQueue after the await of dbManager.delete.
DrainDeleted ==
    \E i \in 1..Len(drains) :
        /\ LET r == RunDrain([Cur EXCEPT !.drains = RemoveAt(drains, i)],
                             drains[i].pendingOps)
           IN  Assign(r) /\ Track(r, FALSE)
        /\ io' = "none"
        /\ UNCHANGED <<online, gistId, lastSyncTime, dbTransactions, gist, now, nextOpId,
                       enqueues, conflictResolutionStrategy, pVars, bootVars>>

\* ---- the steps of a cycle
cycleFrame == <<online, gistId, syncQueue, dbSyncQueue, nextOpId, enqueues, drains,
                attempts, conflictResolutionStrategy, pVars, bootVars>>

Continue(i, c, t, disturbed) ==
    /\ cycles' = [cycles EXCEPT ![i] = c]
    /\ now' = t
    /\ quiet' = (quiet /\ ~disturbed)
    /\ history' = IF disturbed THEN <<>> ELSE history
    /\ UNCHANGED <<syncInProgress, syncStatus, lastSyncTime>>

Finish_StampOnError(i, ok, t, items, clock) ==
    /\ cycles' = RemoveAt(cycles, i)
    /\ syncInProgress' = FALSE
    /\ syncStatus' = IF ok THEN "success" ELSE "error"
    /\ lastSyncTime' = t
    /\ now' = t
    /\ quiet' = quiet
    /\ history' = IF ok /\ quiet
                  THEN (IF history = <<>> THEN <<>> ELSE <<history[Len(history)]>>)
                       \o <<Snapshot(items, clock)>>
                  ELSE <<>>

\* The end of syncNow: lastSyncTime and 'success', or the catch block and
\* 'error'; the finally block clears the flag.
Finish(i, ok, t, items, clock) ==
    /\ cycles' = RemoveAt(cycles, i)
    /\ syncInProgress' = FALSE
    /\ syncStatus' = IF ok THEN "success" ELSE "error"
    /\ lastSyncTime' = IF ok THEN t ELSE lastSyncTime
    /\ now' = t
    /\ quiet' = quiet
    /\ history' = IF ok /\ quiet
                  THEN (IF history = <<>> THEN <<>> ELSE <<history[Len(history)]>>)
                       \o <<Snapshot(items, clock)>>
                  ELSE <<>>

MergeAndClear_AbsentFatal(i, remote, disturbed) ==
    LET m == MergeData(cycles[i].localData, remote, vectorClock,
                       conflictResolutionStrategy)
    IN  /\ vectorClock' = m.vectorClock
        /\ UNCHANGED gist
        /\ IF m.threw \/ (gistId # "none" /\ ~remote.present)
           THEN Finish(i, FALSE, now, <<>>, m.vectorClock) /\ UNCHANGED dbTransactions
           ELSE /\ Continue(i, [cycles[i] EXCEPT !.pc = "clear", !.mergedData = m.items,
                                                 !.remotePresent = remote.present],
                            now, disturbed)
                /\ dbTransactions' = {}

\* mergeData, then saveLocalData up to the await of dbManager.clear.
MergeAndClear(i, remote, disturbed) ==
    LET m == MergeData(cycles[i].localData, remote, vectorClock,
                       conflictResolutionStrategy)
    IN  /\ vectorClock' = m.vectorClock
        /\ UNCHANGED gist
        /\ IF m.threw
           THEN Finish(i, FALSE, now, <<>>, m.vectorClock) /\ UNCHANGED dbTransactions
           ELSE /\ Continue(i, [cycles[i] EXCEPT !.pc = "clear", !.mergedData = m.items,
                                                 !.remotePresent = remote.present],
                            now, disturbed)
                /\ dbTransactions' = {}

Upload_NoGistCheck(i) ==
    /\ UNCHANGED <<vectorClock, dbTransactions, gist>>
    /\ Continue(i, [cycles[i] EXCEPT !.pc = "upload",
                        !.body = UploadBody(cycles[i].mergedData, vectorClock)],
                now, FALSE)

\* uploadData up to the await of fetch, or the end of a cycle without gist.
Upload(i) ==
    /\ UNCHANGED <<vectorClock, dbTransactions, gist>>
    /\ IF gistId # "none"
       THEN Continue(i, [cycles[i] EXCEPT !.pc = "upload",
                            !.body = UploadBody(cycles[i].mergedData, vectorClock)],
                     now, FALSE)
       ELSE Finish(i, TRUE, now, cycles[i].mergedData, vectorClock)

\* getLocalData returns: the fetch of getRemoteData is placed, or without a
\* gist the local snapshot is merged with null.
CycleLocalRead ==
    \E i \in 1..Len(cycles) :
        /\ cycles[i].pc = "getLocal"
        /\ IF gistId # "none"
           THEN /\ Continue(i, [cycles[i] EXCEPT !.pc = "getRemote"], now, FALSE)
                /\ UNCHANGED <<vectorClock, dbTransactions, gist>>
           ELSE MergeAndClear(i, GetRemoteData(gist, FALSE), FALSE)
        /\ io' = "none"
        /\ UNCHANGED cycleFrame

\* The fetch of getRemoteData settles.
CycleRemoteFetched ==
    \E i \in 1..Len(cycles), fetchOk \in BOOLEAN :
        /\ cycles[i].pc = "getRemote"
        /\ MergeAndClear(i, GetRemoteData(gist, fetchOk), ~fetchOk)
        /\ io' = IF ~fetchOk THEN "fetchFailed"
                 ELSE IF ~GetRemoteData(gist, TRUE).present THEN "decryptFailed"
                 ELSE "fetchOk"
        /\ UNCHANGED cycleFrame

\* dbManager.clear returns: saveBatch stamps and puts the merged items.
CycleCleared ==
    \E i \in 1..Len(cycles) :
        /\ cycles[i].pc = "clear"
        /\ IF cycles[i].mergedData # <<>>
           THEN \E t \in Readings :
                   LET stamped == StampItems(cycles[i].mergedData, t)
                   IN  /\ Continue(i, [cycles[i] EXCEPT !.pc = "saveBatch",
                                                        !.mergedData = stamped],
                                   t, FALSE)
                       /\ dbTransactions' = PutAll(dbTransactions, stamped)
                       /\ UNCHANGED <<vectorClock, gist>>
           ELSE Upload(i)
        /\ io' = "none"
        /\ UNCHANGED cycleFrame

\* dbManager.saveBatch returns.
CycleSaved ==
    \E i \in 1..Len(cycles) :
        /\ cycles[i].pc = "saveBatch"
        /\ Upload(i)
        /\ io' = "none"
        /\ UNCHANGED cycleFrame

\* The PATCH of uploadData settles.
CycleUploaded ==
    \E i \in 1..Len(cycles), uploadOk \in BOOLEAN :
        /\ cycles[i].pc = "upload"
        /\ UNCHANGED <<vectorClock, dbTransactions>>
        /\ IF uploadOk
           THEN /\ gist' = cycles[i].body
                /\ Finish(i, TRUE, now, cycles[i].mergedData, vectorClock)
           ELSE /\ UNCHANGED gist
                /\ Finish(i, FALSE, now, <<>>, vectorClock)
        /\ io' = IF uploadOk THEN "uploadOk" ELSE "uploadFailed"
        /\ UNCHANGED cycleFrame

Next ==
    \/ PeriodicSync
    \/ VisibilityChange
    \/ ManualSync
    \/ HandleOnline
    \/ HandleOffline
    \/ QueueOperation
    \/ QueueOperationSaved
    \/ DrainDeleted
    \/ CycleLocalRead
    \/ CycleRemoteFetched
    \/ CycleCleared
    \/ CycleSaved
    \/ CycleUploaded

Spec == Init /\ [][Next]_vars

\* ------------------------------------------------------------------ store failures
\* getLocalData's getAll request fails: getLocalData rejects, syncNow's catch
\* block reports 'error' and syncNow returns normally.
CycleLocalReadFailed ==
    \E i \in 1..Len(cycles) :
        /\ cycles[i].pc = "getLocal"
        /\ Finish(i, FALSE, now, <<>>, vectorClock)
        /\ io' = "readFailed"
        /\ UNCHANGED <<vectorClock, dbTransactions, gist, cycleFrame>>

\* dbManager.clear returned and saveBatch throws when it opens its
\* transaction: saveLocalData rejects with the store cleared, syncNow's catch
\* block reports 'error' and syncNow returns normally.
CycleSaveBatchFailed ==
    \E i \in 1..Len(cycles) :
        /\ cycles[i].pc = "clear"
        /\ cycles[i].mergedData # <<>>
        /\ Finish(i, FALSE, now, <<>>, vectorClock)
        /\ io' = "persistFailed"
        /\ UNCHANGED <<vectorClock, dbTransactions, gist, cycleFrame>>

\* The put request of queueOperation fails: nothing is stored, the await
\* throws and queueOperation rejects with the item left in this.syncQueue.
QueueOperationSaveFailed ==
    \E id \in enqueues :
        /\ enqueues' = enqueues \ {id}
        /\ dbSyncQueue' = {o \in dbSyncQueue : o.id # id}
        /\ rejected' = rejected \cup {"queueOperation"}
        /\ io' = "saveFailed"
        /\ quiet' = FALSE
        /\ history' = <<>>
        /\ UNCHANGED <<online, gistId, syncInProgress, syncQueue, lastSyncTime,
                       syncStatus, dbTransactions, gist, now, nextOpId, drains, cycles,
                       attempts, conflictResolutionStrategy, vectorClock, pVars,
                       enqOrder, loads, restarts, adds>>

NextStore ==
    \/ Next
    \/ CycleLocalReadFailed
    \/ CycleSaveBatchFailed
    \/ QueueOperationSaveFailed

SpecStore == Init /\ [][NextStore]_vars

\* ------------------------------------------------------------------ restart
LoadedQueue_Failed(rows) == SelectSeq(GetAll(rows), LAMBDA item : item.status = "failed")

\* What loadSyncQueue assigns to this.syncQueue: the rows getAll returns, in
\* key order, that are 'pending'.
LoadedQueue(rows) == SelectSeq(GetAll(rows), LAMBDA item : item.status = "pending")

\* queueOperation with whatever id generateUUID returns.
QueueOperationAnyId ==
    /\ \E operation \in {"CREATE", "undefined"}, id \in 1..MaxOps : Enqueue(operation, id)
    /\ UNCHANGED adds

\* The process ends and starts again: the constructor and init run on the
\* stores as they are.  Tasks in flight are gone; a PATCH in flight may or may
\* not have reached the gist.  init places the getAll of loadSyncQueue.
Restart ==
    /\ restarts < MaxRestarts
    /\ restarts' = restarts + 1
    /\ syncInProgress' = FALSE
    /\ conflictResolutionStrategy' = "last-write-wins"
    /\ vectorClock' = [a \in {memberCode} |-> 0]
    /\ syncQueue' = <<>>
    /\ lastSyncTime' = 0
    /\ syncStatus' = "idle"
    /\ enqueues' = {}
    /\ drains' = <<>>
    /\ cycles' = <<>>
    /\ adds' = {}
    /\ loads' = <<[queue |-> LoadedQueue(dbSyncQueue), known |-> UsedIds]>>
    /\ gist' \in {gist} \cup {cycles[i].body : i \in {j \in 1..Len(cycles) :
                                                     cycles[j].pc = "upload"}}
    /\ quiet' = FALSE
    /\ history' = <<>>
    /\ io' = "none"
    /\ UNCHANGED <<online, gistId, dbSyncQueue, dbTransactions, now, nextOpId, attempts,
                   rejected, enqOrder, pVars>>

\* loadSyncQueue after the await of dbManager.getAll.
LoadSyncQueueDone ==
    /\ loads # <<>>
    /\ syncQueue' = loads[1].queue
    /\ loads' = Tail(loads)
    /\ io' = "loaded"
    /\ UNCHANGED <<online, gistId, syncInProgress, lastSyncTime, syncStatus, dbSyncQueue,
                   dbTransactions, gist, now, nextOpId, enqueues, drains, cycles,
                   attempts, quiet, history, rejected, enqOrder, restarts, adds,
                   conflictResolutionStrategy, vectorClock, pVars>>

\* A device with a gist id, no record of its own and the document createGist
\* left.
InitRestart ==
    /\ InitManager
    /\ conflictResolutionStrategy = "last-write-wins"
    /\ vectorClock = [a \in {memberCode} |-> 0]
    /\ dbTransactions = {}
    /\ gistId = "gist" /\ gist = CreatedGist
    /\ pIn = [mode |-> "none"]
    /\ pOut = <<>>
    /\ pDone = FALSE
    /\ peer = NoPeer

NextRestart ==
    \/ PeriodicSync
    \/ VisibilityChange
    \/ ManualSync
    \/ HandleOnline
    \/ HandleOffline
    \/ QueueOperationAnyId
    \/ QueueOperationSaved
    \/ DrainDeleted
    \/ CycleLocalRead
    \/ CycleRemoteFetched
    \/ CycleCleared
    \/ CycleUploaded
    \/ Restart
    \/ LoadSyncQueueDone

SpecRestart == InitRestart /\ [][NextRestart]_vars

\* ------------------------------------------------------------------ local writes
\* addTransaction(transaction) of the host application up to the await of
\* dbManager.save: the record gets an id and createdAt, save stamps updatedAt
\* and places the put.
AddTransaction ==
    /\ Cardinality(adds) < MaxAdds
    /\ \E t \in Readings :
          LET id == 2 + Cardinality(adds)
          IN  /\ dbTransactions' = dbTransactions \cup {Rec(id, t, t, 30)}
              /\ adds' = adds \cup {[id |-> id, pc |-> "save"]}
              /\ now' = t
    /\ quiet' = FALSE
    /\ history' = <<>>
    /\ io' = "none"
    /\ UNCHANGED <<online, gistId, syncInProgress, syncQueue, lastSyncTime, syncStatus,
                   dbSyncQueue, gist, nextOpId, enqueues, drains, cycles, attempts,
                   conflictResolutionStrategy, vectorClock, pVars, rejected, enqOrder,
                   loads, restarts>>

\* addTransaction after the await of dbManager.save: with syncEnabled, as
\* every family configuration the application writes has it, queueOperation
\* is called with the 'CREATE' operation.
AddTransactionSaved ==
    \E a \in adds :
        /\ a.pc = "save"
        /\ adds' = (adds \ {a}) \cup {[a EXCEPT !.pc = "done"]}
        /\ Enqueue("CREATE", nextOpId + 1)

NextWrite ==
    \/ Next
    \/ AddTransaction
    \/ AddTransactionSaved

SpecWrite == Init /\ [][NextWrite]_vars

\* ------------------------------------------------------------------ a shared document
\* A snapshot uploaded earlier by member B: a record this device does not have.
GistOfPeer == UploadBody(<<Rec(2, 1, 1, 20)>>, [a \in {"B"} |-> 1])

\* A device whose gist holds a record of another member.
InitShared ==
    /\ InitManager
    /\ conflictResolutionStrategy = "last-write-wins"
    /\ vectorClock = [a \in {memberCode} |-> 0]
    /\ dbTransactions = {Rec(1, 1, 1, 10)}
    /\ gistId = "gist" /\ gist = GistOfPeer
    /\ pIn = [mode |-> "none"]
    /\ pOut = <<>>
    /\ pDone = FALSE
    /\ peer = NoPeer

SpecShared == InitShared /\ [][Next]_vars

\* ------------------------------------------------------------------ two devices, one document
\* What a step of member B's device leaves alone on this device.
peerFrame == <<online, gistId, syncInProgress, syncQueue, lastSyncTime, syncStatus,
               dbSyncQueue, dbTransactions, nextOpId, enqueues, drains, cycles, attempts,
               quiet, history, io, rejected, enqOrder, loads, restarts, adds,
               conflictResolutionStrategy, vectorClock, pIn, pOut, pDone>>

\* syncNow() on member B's device, online and with an empty queue, up to the
\* first getAll of getLocalData.
PeerSyncNow ==
    /\ peer.pc = "idle"
    /\ peer' = [peer EXCEPT !.pc = "getLocal", !.localData = GetAll(peer.store)]
    /\ UNCHANGED <<gist, now, peerFrame>>

\* getLocalData returns there: the fetch of getRemoteData is placed.
PeerLocalRead ==
    /\ peer.pc = "getLocal"
    /\ peer' = [peer EXCEPT !.pc = "getRemote"]
    /\ UNCHANGED <<gist, now, peerFrame>>

\* The fetch settles with the document: mergeData, then saveLocalData up to
\* the await of dbManager.clear.
PeerRemoteFetched ==
    /\ peer.pc = "getRemote"
    /\ LET m == MergeData(peer.localData, GetRemoteData(gist, TRUE), peer.vectorClock,
                          "last-write-wins")
       IN  peer' = [peer EXCEPT !.pc = "clear", !.mergedData = m.items,
                                !.vectorClock = m.vectorClock, !.store = {}]
    /\ UNCHANGED <<gist, now, peerFrame>>

\* dbManager.clear returns there: saveBatch stamps and puts the merged items.
PeerCleared ==
    /\ peer.pc = "clear"
    /\ \E t \in Readings :
          LET stamped == StampItems(peer.mergedData, t)
          IN  /\ peer' = [peer EXCEPT !.pc = "saveBatch", !.mergedData = stamped,
                                       !.store = PutAll(peer.store, stamped)]
              /\ now' = t
    /\ UNCHANGED <<gist, peerFrame>>

\* dbManager.saveBatch returns there: uploadData up to the await of fetch.
PeerSaved ==
    /\ peer.pc = "saveBatch"
    /\ peer' = [peer EXCEPT !.pc = "upload",
                            !.body = UploadBody(peer.mergedData, peer.vectorClock)]
    /\ UNCHANGED <<gist, now, peerFrame>>

\* The PATCH of member B's uploadData settles: the cycle ends in success.
PeerUploaded ==
    /\ peer.pc = "upload"
    /\ gist' = peer.body
    /\ peer' = [peer EXCEPT !.pc = "idle"]
    /\ UNCHANGED <<now, peerFrame>>

\* The fetch of this device settles with the document.
CycleRemoteFetchedOk == CycleRemoteFetched /\ io' = "fetchOk"

\* The PATCH of this device settles with a 2xx status.
CycleUploadedOk == CycleUploaded /\ io' = "uploadOk"

\* The edits the two members made to record 1 before they stopped editing:
\* A's at time 1, B's at time 2.
EditOfA == Rec(1, 1, 1, 10)

EditOfB == Rec(1, 2, 1, 20)

\* Both devices after init, sharing the document createGist left.
InitPair ==
    /\ InitManagerAt(2)
    /\ conflictResolutionStrategy = "last-write-wins"
    /\ vectorClock = [a \in {memberCode} |-> 0]
    /\ dbTransactions = {EditOfA}
    /\ gistId = "gist" /\ gist = CreatedGist
    /\ pIn = [mode |-> "none"]
    /\ pOut = <<>>
    /\ pDone = FALSE
    /\ peer = [NoPeer EXCEPT !.pc = "idle", !.store = {EditOfB}]

\* No edit, no failure: the timers of both devices start cycles and every
\* cycle runs to success.
NextPair ==
    \/ PeriodicSync
    \/ CycleLocalRead
    \/ CycleRemoteFetchedOk
    \/ CycleCleared
    \/ CycleSaved
    \/ CycleUploadedOk
    \/ PeerSyncNow
    \/ PeerLocalRead
    \/ PeerRemoteFetched
    \/ PeerCleared
    \/ PeerSaved
    \/ PeerUploaded

FairnessPair ==
    /\ WF_vars(PeriodicSync)
    /\ WF_vars(CycleLocalRead)
    /\ WF_vars(CycleRemoteFetchedOk)
    /\ WF_vars(CycleCleared)
    /\ WF_vars(CycleSaved)
    /\ WF_vars(CycleUploadedOk)
    /\ WF_vars(PeerSyncNow)
    /\ WF_vars(PeerLocalRead)
    /\ WF_vars(PeerRemoteFetched)
    /\ WF_vars(PeerCleared)
    /\ WF_vars(PeerSaved)
    /\ WF_vars(PeerUploaded)

SpecPair == InitPair /\ [][NextPair]_vars /\ FairnessPair

\* ------------------------------------------------------------------ a device that stays online
\* No 'online' and no 'offline' event occurs.
NextOnline ==
    \/ PeriodicSync
    \/ VisibilityChange
    \/ ManualSync
    \/ QueueOperation
    \/ QueueOperationSaved
    \/ DrainDeleted
    \/ CycleLocalRead
    \/ CycleRemoteFetched
    \/ CycleCleared
    \/ CycleSaved
    \/ CycleUploaded

\* The setInterval callback keeps firing (startPeriodicSync never clears the
\* interval) and every store and transport call settles.
Fairness ==
    /\ WF_vars(PeriodicSync)
    /\ WF_vars(QueueOperationSaved)
    /\ WF_vars(DrainDeleted)
    /\ WF_vars(CycleLocalRead)
    /\ WF_vars(CycleRemoteFetched)
    /\ WF_vars(CycleCleared)
    /\ WF_vars(CycleSaved)
    /\ WF_vars(CycleUploaded)

SpecOnline == Init /\ [][NextOnline]_vars /\ Fairness

\* ------------------------------------------------------------------ pure-function checks
\* Inputs of the checks of mergeCollection, resolveConflict and the clock merge.
\* Records carry an early or a late updatedAt.
CollRecs(amount) == {Rec(i, u, 1, amount) : i \in 1..NumIds, u \in {1, MaxTime}}

\* Collections with unique ids, in every order.
Collections(amount) ==
    UNION {{s \in [1..n -> CollRecs(amount)] :
               \A i, j \in 1..n : i < j => s[i].id # s[j].id} : n \in 0..MaxLen}

ConflictRecs == {Rec(1, u, c, a) : u \in 0..MaxTime, c \in 0..MaxTime, a \in {10, 20}}

ClockSet == UNION {[D -> 0..MaxClock] : D \in SUBSET Actors}

InitMerge ==
    /\ InitManager
    /\ gistId = "none" /\ gist = CreatedGist /\ dbTransactions = {}
    /\ conflictResolutionStrategy \in Strategies
    /\ pOut = <<>>
    /\ pDone = FALSE
    /\ peer = NoPeer
    /\ \/ /\ \E l \in Collections(10), r \in Collections(20) :
                pIn = [mode |-> "collection", local |-> l, remote |-> r]
          /\ vectorClock = [a \in {memberCode} |-> 0]
       \/ /\ \E l \in ConflictRecs, r \in ConflictRecs :
                pIn = [mode |-> "resolve", local |-> l, remote |-> r]
          /\ vectorClock = [a \in {memberCode} |-> 0]
       \/ /\ conflictResolutionStrategy = "last-write-wins"
          /\ \E a \in ClockSet, b \in ClockSet :
                /\ pIn = [mode |-> "clock", a |-> a, b |-> b]
                /\ vectorClock = a

\* mergeCollection applied to (local, remote), (local, []) and ([], remote).
ApplyMergeCollection ==
    /\ pIn.mode = "collection" /\ ~pDone
    /\ pDone' = TRUE
    /\ pOut' = [both |-> MergeCollection(pIn.local, pIn.remote, conflictResolutionStrategy),
                emptyRemote |-> MergeCollection(pIn.local, <<>>, conflictResolutionStrategy),
                emptyLocal |-> MergeCollection(<<>>, pIn.remote, conflictResolutionStrategy)]
    /\ UNCHANGED <<devVars, conflictResolutionStrategy, vectorClock, pIn, peer>>

\* resolveConflict applied to a local and a remote copy of one id, and
\* mergeCollection applied to the two one-element collections.
ApplyResolveConflict ==
    /\ pIn.mode = "resolve" /\ ~pDone
    /\ pDone' = TRUE
    /\ pOut' = [resolved |-> ResolveConflict(pIn.local, pIn.remote, conflictResolutionStrategy),
                merged |-> MergeCollection(<<pIn.local>>, <<pIn.remote>>,
                                           conflictResolutionStrategy)]
    /\ UNCHANGED <<devVars, conflictResolutionStrategy, vectorClock, pIn, peer>>

\* The clock loop of mergeData run on this device (clock a) with remote clock
\* b, next to the same loop run on a device with clock b and remote clock a.
ApplyMergeClocks ==
    /\ pIn.mode = "clock" /\ ~pDone
    /\ pDone' = TRUE
    /\ vectorClock' = MergeClocks(vectorClock, pIn.b)
    /\ pOut' = [ba |-> MergeClocks(pIn.b, pIn.a), aa |-> MergeClocks(pIn.a, pIn.a)]
    /\ UNCHANGED <<devVars, conflictResolutionStrategy, pIn, peer>>

NextMerge == ApplyMergeCollection \/ ApplyResolveConflict \/ ApplyMergeClocks

SpecMerge == InitMerge /\ [][NextMerge]_vars

\* ------------------------------------------------------------------ claims
Ids(s) == {s[i].id : i \in 1..Len(s)}

Occurrences(s, id) == Cardinality({i \in 1..Len(s) : s[i].id = id})

\* C5: for collections L and R with unique ids, the collection returned by
\* mergeCollection(L, R) holds every id of L or R exactly once and no other id.
C5_MergeUnion ==
    (pIn.mode = "collection" /\ pDone /\ ~pOut.both.threw) =>
        /\ Ids(pOut.both.items) = Ids(pIn.local) \cup Ids(pIn.remote)
        /\ \A id \in Ids(pOut.both.items) : Occurrences(pOut.both.items, id) = 1

\* Witness of C5: a merge of two collections that share one id and each hold
\* an id of their own has returned.
C5_Witness ==
    /\ pIn.mode = "collection" /\ pDone /\ ~pOut.both.threw
    /\ Ids(pIn.local) \cap Ids(pIn.remote) # {}
    /\ Ids(pIn.local) \ Ids(pIn.remote) # {}
    /\ Ids(pIn.remote) \ Ids(pIn.local) # {}

\* C6: with one side empty mergeCollection returns the other side unchanged
\* (same records, same order), whatever the conflict strategy.
C6_MergeIdentity ==
    (pIn.mode = "collection" /\ pDone) =>
        /\ pOut.emptyRemote = [threw |-> FALSE, items |-> pIn.local]
        /\ pOut.emptyLocal = [threw |-> FALSE, items |-> pIn.remote]

\* Witness of C6: the merge with an empty side has run under the 'manual'
\* strategy on collections of MaxLen records.
C6_Witness ==
    /\ pIn.mode = "collection" /\ pDone
    /\ conflictResolutionStrategy = "manual"
    /\ Len(pIn.local) = MaxLen /\ Len(pIn.remote) = MaxLen

\* The record of the pair with the later timestamp.
Later(local, remote) == IF RecordTime(local) > RecordTime(remote) THEN local ELSE remote

\* C7: under last-write-wins, for a local and a remote record of one id with
\* different timestamps, resolveConflict returns the record with the later
\* timestamp and mergeCollection returns exactly that record.
C7_LaterWins ==
    (/\ pIn.mode = "resolve" /\ pDone
     /\ conflictResolutionStrategy = "last-write-wins"
     /\ RecordTime(pIn.local) # RecordTime(pIn.remote)) =>
        /\ pOut.resolved = [threw |-> FALSE, item |-> Later(pIn.local, pIn.remote)]
        /\ pOut.merged = [threw |-> FALSE, items |-> <<Later(pIn.local, pIn.remote)>>]

\* Witness of C7: the scenario of the claim, local amount 10 older than remote
\* amount 20, has been resolved.
C7_Witness ==
    /\ pIn.mode = "resolve" /\ pDone
    /\ conflictResolutionStrategy = "last-write-wins"
    /\ pIn.local.amount = 10 /\ pIn.remote.amount = 20
    /\ pIn.local.updatedAt = 1 /\ pIn.remote.updatedAt = 2
    /\ pOut.resolved.item.amount = 20

\* C8: under last-write-wins, with exactly equal timestamps the resolver
\* returns the local record.
C8_TieLocal ==
    (/\ pIn.mode = "resolve" /\ pDone
     /\ conflictResolutionStrategy = "last-write-wins"
     /\ RecordTime(pIn.local) = RecordTime(pIn.remote)) =>
        pOut.resolved = [threw |-> FALSE, item |-> pIn.local]

\* C9: merging clock b into a device whose clock is a gives the clock that
\* merging a into a device whose clock is b gives, and merging a into a
\* gives a.
C9_ClockMerge ==
    (pIn.mode = "clock" /\ pDone) =>
        /\ vectorClock = pOut.ba
        /\ pOut.aa = pIn.a

\* Witness of C9: two clocks, each ahead of the other for one actor, have
\* been merged.
C9_Witness ==
    /\ pIn.mode = "clock" /\ pDone
    /\ DOMAIN pIn.a = Actors /\ DOMAIN pIn.b = Actors
    /\ pIn.a["A"] > pIn.b["A"] /\ pIn.b["B"] > pIn.a["B"]

\* C18: under 'manual', resolving a conflict between a local and a remote
\* copy of one id returns the local copy, and the merge of the two completes
\* with the local copy.
C18_ManualKeepsLocal ==
    (/\ pIn.mode = "resolve" /\ pDone
     /\ conflictResolutionStrategy = "manual") =>
        /\ pOut.resolved = [threw |-> FALSE, item |-> pIn.local]
        /\ pOut.merged = [threw |-> FALSE, items |-> <<pIn.local>>]

\* ------------------------------------------------------------------ claims on the manager
\* C1: at most one cycle is in progress at any time, and while one is in
\* progress a syncNow call, alone or after handleOnline's processSyncQueue
\* call, returns leaving the manager, its queue, its tasks and the queue store
\* as they were: it starts nothing and leaves nothing behind to run later.
C1_OneCycle ==
    /\ Len(cycles) <= 1
    /\ Len(cycles) = 1 =>
          /\ SyncNow(Cur, online) = Cur
          /\ SyncNow(ProcessSyncQueue(Cur), TRUE) = Cur

\* Witness of C1: the device is online, a cycle waits for the remote document
\* and an operation is pending, so a further syncNow call has work it leaves.
C1_Witness ==
    /\ Len(cycles) = 1 /\ cycles[1].pc = "getRemote"
    /\ online
    /\ PendingIds(syncQueue) # {}

\* C2: every operation that was pending when syncNow passed its
\* guard has been attempted once the cycle has read the local snapshot.
C2_DrainFirst ==
    \A i \in 1..Len(cycles) :
        \A id \in cycles[i].pendingAtStart : attempts[id] >= 1

\* C3: an operation whose transmission fails on every attempt stays
\* in the queue only with at most RetryLimit failures, and as long as it is in
\* the queue the next drain attempts it again.
C3_RetryUntilDropped ==
    \A i \in 1..Len(syncQueue) :
        (syncQueue[i].operation = "undefined" /\ ~syncInProgress) =>
            /\ syncQueue[i].retryCount <= RetryLimit
            /\ ProcessSyncQueue(Cur).attempts[syncQueue[i].id]
                  = attempts[syncQueue[i].id] + 1

\* C4: at most one drain is in progress at any time, and while one is in
\* progress a processSyncQueue call returns leaving the queue, the status of
\* its operations, the vector clock and the queue store as they were.
C4_OneDrain ==
    /\ Len(drains) <= 1
    /\ Len(drains) = 1 => ProcessSyncQueue(Cur) = Cur

\* Witness of C4: a drain waits for dbManager.delete while another operation
\* is pending in the queue.
C4_Witness ==
    /\ Len(drains) = 1
    /\ PendingIds(syncQueue) # {}

\* C10: of two successful cycles run one after the other with
\* nothing else happening in between, the second produces the merged records
\* and the vector clock the first produced.
C10_Idempotent ==
    Len(history) = 2 => history[1] = history[2]

C12_FetchFailureNotFatal ==
    [][/\ io' \in {"fetchFailed", "decryptFailed"} =>
             /\ Len(cycles') = 1
             /\ cycles'[1].pc = "clear"
             /\ ~cycles'[1].remotePresent
             /\ cycles'[1].mergedData = cycles[1].localData
             /\ vectorClock' = vectorClock
             /\ syncInProgress' /\ syncStatus' = "syncing"
       /\ (cycles # <<>> /\ gistId # "none" /\ ~cycles[1].remotePresent
              /\ io' = "uploadOk") =>
             /\ cycles' = <<>>
             /\ syncStatus' = "success"
             /\ gist' = UploadBody(cycles[1].mergedData, vectorClock)]_vars

\* Witness of C12: a cycle whose fetch failed has persisted the local records
\* and waits for its upload.
C12_Witness ==
    /\ Len(cycles) = 1 /\ cycles[1].pc = "upload"
    /\ ~cycles[1].remotePresent
    /\ cycles[1].mergedData # <<>>

\* Witness of the decryption case of C12: a cycle goes on after a document
\* that did not decrypt.
C12_WitnessDecrypt ==
    /\ io = "decryptFailed"
    /\ Len(cycles) = 1 /\ cycles[1].pc = "clear"

\* Outcomes of a step that make syncNow's try block throw.
Fatal == {"uploadFailed", "readFailed", "persistFailed"}

\* C13: a cycle that begins reports 'syncing' and holds the flag until it
\* ends; it ends with the flag cleared, in 'error' with lastSyncTime as it
\* was when the upload (or a store call) fails, in 'success' with
\* lastSyncTime set to the time of the end otherwise; and once it has ended a
\* syncNow call on an online device passes the guard.
C13_Outcome ==
    [][/\ cycles' # <<>> => (syncInProgress' /\ syncStatus' = "syncing")
       /\ io' \in Fatal =>
             /\ cycles # <<>> /\ cycles' = <<>>
             /\ syncStatus' = "error"
             /\ lastSyncTime' = lastSyncTime
       /\ (cycles # <<>> /\ cycles' = <<>> /\ io' \notin Fatal) =>
             /\ syncStatus' = "success"
             /\ lastSyncTime' = now'
       /\ (cycles # <<>> /\ cycles' = <<>>) =>
             /\ ~syncInProgress'
             /\ SyncNowGuard(syncInProgress', TRUE)]_vars

\* Witness of C13: after a successful cycle a later cycle has just ended in
\* 'error' on a failed upload.
C13_Witness ==
    /\ io = "uploadFailed"
    /\ syncStatus = "error" /\ ~syncInProgress
    /\ lastSyncTime > 0

\* C14: when persisting the merged snapshot fails on a device with a remote
\* document id, the cycle goes on to place the upload.
C14_PersistFailureUploads ==
    [][(io' = "persistFailed" /\ gistId # "none") =>
          /\ Len(cycles') = 1
          /\ cycles'[1].pc = "upload"]_vars

\* C15: a store failure during syncNow rejects the syncNow call, and a store
\* failure during queueOperation rejects the queueOperation call.
C15_StoreFailurePropagates ==
    [][/\ io' \in {"readFailed", "persistFailed"} => "syncNow" \in rejected'
       /\ io' = "saveFailed" => "queueOperation" \in rejected']_vars

\* ------------------------------------------------------------------ claims on the queue
\* C16: when loadSyncQueue completes after a restart, every operation that
\* was enqueued before the restart and is still in the queue store is in the
\* in-memory queue with status 'pending', among the operations the next drain
\* goes through.
C16_QueueSurvivesRestart ==
    [][io' = "loaded" =>
          \A o \in dbSyncQueue :
              o.id \in loads[1].known =>
                  \E k \in 1..Len(PendingOps(syncQueue')) :
                      /\ PendingOps(syncQueue')[k].id = o.id
                      /\ PendingOps(syncQueue')[k].status = "pending"]_vars

\* Witness of C16: after a restart loadSyncQueue has brought back, pending, an
\* operation whose transmission had failed before the restart.
C16_Witness ==
    /\ io = "loaded" /\ restarts = 1
    /\ \E k \in 1..Len(syncQueue) :
          /\ syncQueue[k].status = "pending"
          /\ attempts[syncQueue[k].id] >= 1

\* C17: whenever no enqueue, no drain and no load is in progress, the queue
\* store holds exactly the operations of the in-memory queue, with the same
\* status and retryCount.
C17_QueuePersisted ==
    (enqueues = {} /\ drains = <<>> /\ loads = <<>>) =>
        dbSyncQueue = {syncQueue[k] : k \in 1..Len(syncQueue)}

\* The place of an operation in the order of the queueOperation calls.
Position(id) == CHOOSE k \in 1..Len(enqOrder) : enqOrder[k] = id

\* C20: the operations a drain goes through are in the order in which they
\* were enqueued, also after a restart.
C20_DrainInEnqueueOrder ==
    LET p == PendingOps(syncQueue)
    IN  \A i, j \in 1..Len(p) : i < j => Position(p[i].id) < Position(p[j].id)

\* A step of the cycle in flight.
CycleStep ==
    CycleLocalRead \/ CycleRemoteFetched \/ CycleCleared \/ CycleSaved \/ CycleUploaded

\* C19: while the device is offline no cycle begins and, unless a drain is
\* already in flight, no operation is attempted and no drain begins; the step
\* that takes the device offline changes nothing of the manager, its queue,
\* its clock or its tasks; and a cycle in flight on an offline device can
\* take its next step.
C19_Offline ==
    /\ [][/\ (~online /\ ~online') =>
               /\ Len(cycles') <= Len(cycles)
               /\ drains = <<>> => (drains' = <<>> /\ attempts' = attempts)
          /\ (online /\ ~online') =>
               UNCHANGED <<syncInProgress, syncQueue, vectorClock, syncStatus,
                           lastSyncTime, dbSyncQueue, dbTransactions, gist, cycles,
                           drains, enqueues, attempts>>]_vars
    /\ []((~online /\ cycles # <<>>) => ENABLED CycleStep)

\* Witness of C19: on an offline device a cycle has run to its end while an
\* operation waits in the queue.
C19_Witness ==
    /\ ~online
    /\ io = "uploadFailed" /\ syncStatus = "error"
    /\ PendingIds(syncQueue) # {}

\* this.syncQueue holds an operation with this id.
InQueue(id) == \E k \in 1..Len(syncQueue) : syncQueue[k].id = id

\* The operations transmitted so far: attempted, and their row deleted from
\* the queue store, which processSyncQueue does after a successful
\* syncOperation and nowhere else.
Transmitted ==
    {id \in UsedIds : attempts[id] >= 1 /\ \A o \in dbSyncQueue : o.id # id}

\* C29: when loadSyncQueue completes, every operation enqueued since init
\* placed the load is in the in-memory queue or has been transmitted, and no
\* id occurs twice in the in-memory queue.
C29_EnqueueDuringLoad ==
    [][io' = "loaded" =>
          /\ \A id \in UsedIds \ loads[1].known :
                 InQueue(id)' \/ id \in Transmitted'
          /\ \A id \in UsedIds : Occurrences(syncQueue', id) <= 1]_vars

\* ------------------------------------------------------------------ claims on the records
\* The records of a collection.
Records(items) == {items[k] : k \in 1..Len(items)}

\* The records of the document as a successful fetch returns them.
RemoteRecords == Records(GetRemoteData(gist, TRUE).data.transactions)

\* C25: while a cycle is in flight every record it leaves in the local store,
\* and every record of a document it uploads, is equal field for field to a
\* record of the local snapshot it read or of the remote document.
C25_RecordsUnaltered ==
    [][cycles # <<>> =>
          /\ dbTransactions' \subseteq Records(cycles[1].localData) \cup RemoteRecords
          /\ gist' # gist =>
                Records(gist'.plain.transactions)
                   \subseteq Records(cycles[1].localData) \cup RemoteRecords]_vars

\* C26: a document handed to the PATCH of uploadData carries the encrypted
\* flag and the ciphertext, and no record outside the ciphertext.
C26_EncryptedOnly ==
    \A i \in 1..Len(cycles) :
        cycles[i].pc = "upload" =>
            /\ cycles[i].body.encrypted
            /\ cycles[i].body.data.key = familyCode
            /\ Records(cycles[i].body.plain.transactions) = {}

\* C27: when a cycle ends, every record the host saved after the cycle read
\* the local snapshot is in the local store.
C27_NoLostWrite ==
    [][(cycles # <<>> /\ cycles' = <<>>) =>
          \A a \in adds :
              a.id \notin Ids(cycles[1].localData) =>
                  a.id \in {r.id : r \in dbTransactions'}]_vars

\* The ids of the records a reader of a document gets from its data.
DocIds(doc) == Ids(doc.data.plaintext.transactions)

\* C28: a successful upload leaves in the remote document every record id
\* that the document held before; no one but this device writes the document
\* here, so that is the document as it was when the cycle began.
C28_RemoteRecordsKept ==
    [][io' = "uploadOk" => DocIds(gist) \subseteq DocIds(gist')]_vars

\* ------------------------------------------------------------------ claims on the vector clock
\* The counter of an actor in a clock, 0 when the clock has no entry for it.
ClockAt(vc, k) == IF k \in DOMAIN vc THEN vc[k] ELSE 0

Max(a, b) == IF a > b THEN a ELSE b

\* The vector clock of the snapshot a successful fetch of the document returns.
RemoteClock == GetRemoteData(gist, TRUE).data.vectorClock

\* C21: no step of the manager (enqueue, drain, cycle, trigger) lowers a
\* counter of the vector clock, and the step that merges a fetched snapshot
\* leaves, for every actor, the larger of the local and the remote counter,
\* an absent counter counting as 0.
C21_ClockMonotone ==
    [][/\ \A k \in Actors : ClockAt(vectorClock', k) >= ClockAt(vectorClock, k)
       /\ io' = "fetchOk" =>
             \A k \in Actors :
                 ClockAt(vectorClock', k)
                    = Max(ClockAt(vectorClock, k), ClockAt(RemoteClock, k))]_vars

\* Witness of C21: a snapshot was merged whose counter for this device is
\* behind the device's own and whose counter for B the device did not have.
C21_Witness ==
    /\ io = "fetchOk"
    /\ "A" \in DOMAIN RemoteClock /\ "B" \in DOMAIN RemoteClock
    /\ vectorClock["A"] > RemoteClock["A"]
    /\ vectorClock["B"] = RemoteClock["B"]

\* C22: in every step the own counter advances by the number of operations
\* transmitted in that step, so a failed attempt leaves it alone, and a step
\* that attempts operations leaves the counters of the other actors alone.
C22_OwnCounter ==
    [][/\ vectorClock'[memberCode] - vectorClock[memberCode]
             = Cardinality(Transmitted') - Cardinality(Transmitted)
       /\ attempts' # attempts =>
             \A k \in Actors \ {memberCode} :
                 ClockAt(vectorClock', k) = ClockAt(vectorClock, k)]_vars

\* C24: the step in which the process starts again and init runs leaves every
\* counter of the vector clock at least as large as it was before.
C24_ClockPersisted ==
    [][restarts' # restarts =>
          \A k \in Actors : ClockAt(vectorClock', k) >= ClockAt(vectorClock, k)]_vars

\* ------------------------------------------------------------------ claims on progress
\* For every id the edit with the latest timestamp.
LatestEdits ==
    {r \in {EditOfA, EditOfB} :
        \A o \in {EditOfA, EditOfB} : o.id = r.id => RecordTime(o) <= RecordTime(r)}

\* Both stores, outside a cycle of their device, and the document hold
\* exactly the latest edits.
Converged ==
    /\ cycles = <<>> => dbTransactions = LatestEdits
    /\ peer.pc = "idle" => peer.store = LatestEdits
    /\ Records(gist.data.plaintext.transactions) = LatestEdits

\* C30: with the edits stopped and both devices completing cycles, from some
\* point on both stores and the document hold, for every id, the version
\* with the latest edit timestamp, and no later cycle changes that.
C30_Converge == <>[]Converged

\* C23: on a device that stays online, with the periodic trigger firing and
\* every call settling, every operation in the queue eventually leaves it.
C23_QueueDrains ==
    \A id \in 1..MaxOps : InQueue(id) ~> ~InQueue(id)

====
